---------------------------- MODULE Spec2Model ----------------------------
(***************************************************************************)
(* Maze game: the randomized depth-first maze generator                    *)
(* (services/mazeGenerator.ts) and the game controller (App component).    *)
(*                                                                         *)
(* SpecGen runs generateMaze one loop iteration per step, for every grid   *)
(* size within the bounds.  Spec is the App: one action per handler,       *)
(* timer callback and effect; initLevel calls generateMaze synchronously,  *)
(* so there it is the set of grids the call can return.                    *)
(***************************************************************************)
EXTENDS Integers, Sequences, FiniteSets, TLC

VARIABLES
    \* ---- generateMaze locals ----
    rows, cols,     \* arguments of the call in progress
    grid,           \* Cell[][] under construction
    stack,          \* Position[] (top is the last element)
    gpc,            \* "idle" | "loop" | "returned"
    \* ---- App state (useState / useRef) ----
    level, status, maze, playerPos, goalPos, timer, bestTimes,
    timerRef,       \* id of the interval held by the ref, 0 for null
    \* ---- environment of the App ----
    app,            \* "mounting" | "running" | "crashed" (render threw)
    stored,         \* localStorage item 'maze_best_times'
    intervals,      \* ids of the live setInterval timers
    winTimeouts,    \* pending setTimeout(handleWin, 50) callbacks, oldest first;
                    \* each entry is the `level` its handleWin closure captured
    \* ---- history ----
    completions,    \* level -> the timer values at which handleWin recorded a
                    \* completion of it (earlier sessions included)
    wonLevel,       \* the level captured by the handleWin that set the present
                    \* WON status, 0 when the status was not set by a handleWin
    pushes, pops    \* cell -> how often stack.push / stack.pop handled it in
                    \* the generateMaze call in progress

genVars == <<rows, cols, grid, stack, gpc, pushes, pops>>
appVars == <<level, status, maze, playerPos, goalPos, timer, bestTimes, timerRef>>
envVars == <<app, stored, intervals, winTimeouts>>
histVars == <<completions, wonLevel>>
vars == <<rows, cols, grid, stack, gpc, pushes, pops,
          level, status, maze, playerPos, goalPos, timer, bestTimes, timerRef,
          app, stored, intervals, winTimeouts, completions, wonLevel>>

---------------------------------------------------------------------------
(* Bounds of the model *)

\* generateMaze is explored for every rows in 1..MaxRows, cols in 1..MaxCols
MaxRows == 3
MaxCols == 4

\* The App's INITIAL_SIZE (8) and MAX_SIZE (24), scaled down so that every
\* maze of every level can be enumerated; the growth of 2 per level and the
\* cap are kept
INITIAL_SIZE == 2
MAX_SIZE == 3

\* levels played, seconds counted, win callbacks pending at once
MaxLevel == 2
MaxTimer == 2
MaxPending == 1

---------------------------------------------------------------------------
(* types.ts *)

Sides == {"top", "right", "bottom", "left"}

Pos(r, c) == [r |-> r, c |-> c]

NoMaze == << >>

Direction == {"UP", "DOWN", "LEFT", "RIGHT"}

\* JavaScript values: null, and an object with integer keys
Null == [kind |-> "null"]
Obj(rec) == [kind |-> "object", rec |-> rec]

---------------------------------------------------------------------------
(* services/mazeGenerator.ts *)

\* faulty variant: the cell literal starts without its left wall
NewCell_noLeft(r, c) ==
    [r |-> r, c |-> c,
     walls |-> [top |-> TRUE, right |-> TRUE, bottom |-> TRUE, left |-> FALSE],
     visited |-> FALSE]

\* the cell literal of the grid initialiser
NewCell(r, c) ==
    [r |-> r, c |-> c,
     walls |-> [top |-> TRUE, right |-> TRUE, bottom |-> TRUE, left |-> TRUE],
     visited |-> FALSE]

\* Array.from allocates every row and cell at once: @@ << >> makes the
\* function an explicit table instead of a rule evaluated on demand
NewGrid(rws, cls) ==
    [i \in 0..(rws - 1) |-> [j \in 0..(cls - 1) |-> NewCell(i, j)] @@ << >>] @@ << >>

start == Pos(0, 0)

\* faulty variant: the right-hand bound is off by one (c < cols - 2)
getUnvisitedNeighbors_offByOne(pos, rws, cls, g) ==
    LET r == pos.r
        c == pos.c
        up    == IF r > 0 /\ ~g[r - 1][c].visited THEN <<Pos(r - 1, c)>> ELSE <<>>
        down  == IF r < rws - 1 /\ ~g[r + 1][c].visited THEN <<Pos(r + 1, c)>> ELSE <<>>
        lft   == IF c > 0 /\ ~g[r][c - 1].visited THEN <<Pos(r, c - 1)>> ELSE <<>>
        rgt   == IF c < cls - 2 /\ ~g[r][c + 1].visited THEN <<Pos(r, c + 1)>> ELSE <<>>
    IN  up \o down \o lft \o rgt

getUnvisitedNeighbors(pos, rws, cls, g) ==
    LET r == pos.r
        c == pos.c
        up    == IF r > 0 /\ ~g[r - 1][c].visited THEN <<Pos(r - 1, c)>> ELSE <<>>
        down  == IF r < rws - 1 /\ ~g[r + 1][c].visited THEN <<Pos(r + 1, c)>> ELSE <<>>
        lft   == IF c > 0 /\ ~g[r][c - 1].visited THEN <<Pos(r, c - 1)>> ELSE <<>>
        rgt   == IF c < cls - 1 /\ ~g[r][c + 1].visited THEN <<Pos(r, c + 1)>> ELSE <<>>
    IN  up \o down \o lft \o rgt

\* grid[p.r][p.c].walls.<side> = false
ClearWall(g, p, side) == [g EXCEPT ![p.r][p.c].walls[side] = FALSE]

\* faulty variant: the first cell gets a fresh walls object in which only
\* the facing flag is false, so its walls cleared earlier stand again
FreshWalls(g, p, side) ==
    [g EXCEPT ![p.r][p.c].walls = [s \in Sides |-> s # side]]
removeWalls_fresh(a, b, g) ==
    LET dr == a.r - b.r
        dc == a.c - b.c
        g1 == IF dr = 1 THEN ClearWall(FreshWalls(g, a, "top"), b, "bottom")
              ELSE IF dr = -1 THEN ClearWall(FreshWalls(g, a, "bottom"), b, "top")
              ELSE g
        g2 == IF dc = 1 THEN ClearWall(FreshWalls(g1, a, "left"), b, "right")
              ELSE IF dc = -1 THEN ClearWall(FreshWalls(g1, a, "right"), b, "left")
              ELSE g1
    IN  g2

\* faulty variant: only the first cell's flag is cleared
removeWalls_oneSided(a, b, g) ==
    LET dr == a.r - b.r
        dc == a.c - b.c
        g1 == IF dr = 1 THEN ClearWall(g, a, "top")
              ELSE IF dr = -1 THEN ClearWall(g, a, "bottom")
              ELSE g
        g2 == IF dc = 1 THEN ClearWall(g1, a, "left")
              ELSE IF dc = -1 THEN ClearWall(g1, a, "right")
              ELSE g1
    IN  g2

\* faulty variant: the flags of the row cases are exchanged
removeWalls_swapped(a, b, g) ==
    LET dr == a.r - b.r
        dc == a.c - b.c
        g1 == IF dr = 1 THEN ClearWall(ClearWall(g, a, "bottom"), b, "top")
              ELSE IF dr = -1 THEN ClearWall(ClearWall(g, a, "top"), b, "bottom")
              ELSE g
        g2 == IF dc = 1 THEN ClearWall(ClearWall(g1, a, "left"), b, "right")
              ELSE IF dc = -1 THEN ClearWall(ClearWall(g1, a, "right"), b, "left")
              ELSE g1
    IN  g2

\* faulty variant: the case dr = -1 is missing
removeWalls_noDown(a, b, g) ==
    LET dr == a.r - b.r
        dc == a.c - b.c
        g1 == IF dr = 1 THEN ClearWall(ClearWall(g, a, "top"), b, "bottom")
              ELSE g
        g2 == IF dc = 1 THEN ClearWall(ClearWall(g1, a, "left"), b, "right")
              ELSE IF dc = -1 THEN ClearWall(ClearWall(g1, a, "right"), b, "left")
              ELSE g1
    IN  g2

removeWalls(a, b, g) ==
    LET dr == a.r - b.r
        dc == a.c - b.c
        g1 == IF dr = 1 THEN ClearWall(ClearWall(g, a, "top"), b, "bottom")
              ELSE IF dr = -1 THEN ClearWall(ClearWall(g, a, "bottom"), b, "top")
              ELSE g
        g2 == IF dc = 1 THEN ClearWall(ClearWall(g1, a, "left"), b, "right")
              ELSE IF dc = -1 THEN ClearWall(ClearWall(g1, a, "right"), b, "left")
              ELSE g1
    IN  g2

\* lines 6-18: the grid with the start cell marked visited
InitialGrid(rws, cls) ==
    [NewGrid(rws, cls) EXCEPT ![start.r][start.c].visited = TRUE]

\* faulty variant: the walls to all unvisited neighbours are removed, not
\* only the wall to the one drawn
RECURSIVE removeAll(_, _, _)
removeAll(a, nbs, g) ==
    IF nbs = <<>> THEN g ELSE removeAll(a, Tail(nbs), removeWalls(a, Head(nbs), g))
CarveStep_clearsAll(g, st, rws, cls, i) ==
    LET currentPos == st[Len(st)]
        neighbors == getUnvisitedNeighbors(currentPos, rws, cls, g)
        next == neighbors[i]
    IN  [grid  |-> [removeAll(currentPos, neighbors, g)
                      EXCEPT ![next.r][next.c].visited = TRUE],
         stack |-> Append(st, next)]

\* faulty variant: the drawn neighbour is pushed without being marked visited
CarveStep_noMark(g, st, rws, cls, i) ==
    LET currentPos == st[Len(st)]
        neighbors == getUnvisitedNeighbors(currentPos, rws, cls, g)
        next == neighbors[i]
    IN  [grid  |-> removeWalls(currentPos, next, g),
         stack |-> Append(st, next)]

\* lines 25-28: the i-th unvisited neighbour was drawn
CarveStep(g, st, rws, cls, i) ==
    LET currentPos == st[Len(st)]
        neighbors == getUnvisitedNeighbors(currentPos, rws, cls, g)
        next == neighbors[i]
    IN  [grid  |-> [removeWalls(currentPos, next, g)
                      EXCEPT ![next.r][next.c].visited = TRUE],
         stack |-> Append(st, next)]

\* faulty variant: shift() instead of pop(), the bottom entry is removed
PopStep_shift(st) == SubSeq(st, 2, Len(st))

\* faulty variant: the top of the stack is read but not removed
PopStep_peek(st) == st

\* line 30: stack.pop()
PopStep(st) == SubSeq(st, 1, Len(st) - 1)

\* lines 20-34: the grids the loop can return from grid g and stack st;
\* generateMazeDraw collects them over the draws i, i+1, ... of line 25
RECURSIVE generateMazeLoop(_, _, _, _), generateMazeDraw(_, _, _, _, _)
generateMazeLoop(g, st, rws, cls) ==
    IF Len(st) > 0
    THEN IF Len(getUnvisitedNeighbors(st[Len(st)], rws, cls, g)) > 0
         THEN generateMazeDraw(g, st, rws, cls, 1)
         ELSE generateMazeLoop(g, PopStep(st), rws, cls)
    ELSE {g}
generateMazeDraw(g, st, rws, cls, i) ==
    IF i > Len(getUnvisitedNeighbors(st[Len(st)], rws, cls, g))
    THEN {}
    ELSE generateMazeLoop(CarveStep(g, st, rws, cls, i).grid,
                          CarveStep(g, st, rws, cls, i).stack, rws, cls)
         \cup generateMazeDraw(g, st, rws, cls, i + 1)

\* the grids generateMaze(rows, cols) can return, over all random draws
generateMaze(rws, cls) ==
    generateMazeLoop(InitialGrid(rws, cls), <<start>>, rws, cls)

\* history: the entries of the new stack beyond the old one were pushed,
\* the entries of the old stack missing from the end of the new one popped
Count(st, p) == Cardinality({k \in 1..Len(st) : st[k] = p})
Pushed(h, old, new) ==
    [p \in DOMAIN h |-> IF Len(new) > Len(old)
                        THEN h[p] + Count(SubSeq(new, Len(old) + 1, Len(new)), p)
                        ELSE h[p]]
Popped(h, old, new) ==
    [p \in DOMAIN h |-> IF Len(new) < Len(old)
                        THEN h[p] + Count(old, p) - Count(new, p)
                        ELSE h[p]]
NoCounts(rws, cls) == [p \in {Pos(r, c) : r \in 0..(rws - 1), c \in 0..(cls - 1)} |-> 0]

\* one iteration of the while loop, branch neighbors.length > 0
Carve ==
    /\ gpc = "loop"
    /\ Len(stack) > 0
    /\ LET neighbors == getUnvisitedNeighbors(stack[Len(stack)], rows, cols, grid)
       IN  /\ Len(neighbors) > 0
           /\ \E i \in 1..Len(neighbors) :
                /\ grid' = CarveStep(grid, stack, rows, cols, i).grid
                /\ stack' = CarveStep(grid, stack, rows, cols, i).stack
    /\ pushes' = Pushed(pushes, stack, stack')
    /\ UNCHANGED <<rows, cols, gpc, pops>>

\* one iteration of the while loop, branch else
Backtrack ==
    /\ gpc = "loop"
    /\ Len(stack) > 0
    /\ Len(getUnvisitedNeighbors(stack[Len(stack)], rows, cols, grid)) = 0
    /\ stack' = PopStep(stack)
    /\ pops' = Popped(pops, stack, stack')
    /\ UNCHANGED <<rows, cols, grid, gpc, pushes>>

\* the loop condition fails: return grid
generateMazeReturn ==
    /\ gpc = "loop"
    /\ Len(stack) = 0
    /\ gpc' = "returned"
    /\ UNCHANGED <<rows, cols, grid, stack, pushes, pops>>

---------------------------------------------------------------------------
(* generateMaze on its own, for every rows in 1..MaxRows, cols in 1..MaxCols *)

AppIdle ==
    /\ level = 1
    /\ status = "START"
    /\ maze = NoMaze
    /\ playerPos = Pos(0, 0)
    /\ goalPos = Pos(0, 0)
    /\ timer = 0
    /\ bestTimes = Obj(<< >>)
    /\ timerRef = 0
    /\ app = "mounting"
    /\ stored = [kind |-> "absent"]
    /\ intervals = {}
    /\ winTimeouts = <<>>
    /\ completions = [l \in 1..MaxLevel |-> {}]
    /\ wonLevel = 0

InitGen ==
    /\ \E rws \in 1..MaxRows, cls \in 1..MaxCols :
         /\ rows = rws
         /\ cols = cls
         /\ grid = InitialGrid(rws, cls)
         /\ stack = <<start>>
         /\ pushes = [NoCounts(rws, cls) EXCEPT ![start] = 1]
         /\ pops = NoCounts(rws, cls)
    /\ gpc = "loop"
    /\ AppIdle

GenCarve == Carve /\ UNCHANGED <<appVars, envVars, histVars>>
GenBacktrack == Backtrack /\ UNCHANGED <<appVars, envVars, histVars>>
GenReturn == generateMazeReturn /\ UNCHANGED <<appVars, envVars, histVars>>

NextGen == GenCarve \/ GenBacktrack \/ GenReturn

SpecGen == InitGen /\ [][NextGen]_vars

\* the loop runs to completion: no step of it waits on anything
LiveGen == InitGen /\ [][NextGen]_vars /\ WF_vars(NextGen)

---------------------------------------------------------------------------
(* App: persistence of the best times *)

\* The text of a localStorage item is kept as what it spells: an object
\* literal is the list of its "key":value members in the order written,
\* "null" is the JSON null, anything JSON.parse rejects is "garbage".
NoItem == [kind |-> "absent"]

RECURSIVE Members(_, _)
Members(rec, keys) ==
    IF keys = {} THEN <<>>
    ELSE LET k == CHOOSE x \in keys : \A y \in keys : x <= y
         IN  <<  <<k, rec[k]>>  >> \o Members(rec, keys \ {k})

\* JSON.stringify of a Record<number, number>: integer keys in ascending order
JSONstringify(rec) == [kind |-> "object", members |-> Members(rec, DOMAIN rec)]

JSONparseThrows(item) == item.kind = "garbage"

\* JSON.parse of a text it accepts; a repeated key keeps its last value
JSONparse(item) ==
    IF item.kind = "null" THEN Null
    ELSE LET ms == item.members
             keys == {ms[i][1] : i \in 1..Len(ms)}
             last(k) == CHOOSE i \in 1..Len(ms) :
                           ms[i][1] = k /\ \A j \in 1..Len(ms) : ms[j][1] = k => j <= i
         IN  Obj([k \in keys |-> ms[last(k)][2]])

\* !rec[k]: rec[k] is undefined (no such key) or the number 0
Falsy(rec, k) == k \notin DOMAIN rec \/ rec[k] = 0

\* the load effect, run once after the first render; the render that
\* follows reads bestTimes[level], which throws when bestTimes is null
LoadBestTimes ==
    /\ app = "mounting"
    /\ LET saved == stored
           loaded == IF saved # NoItem /\ ~JSONparseThrows(saved)
                     THEN JSONparse(saved)
                     ELSE bestTimes
       IN  /\ bestTimes' = loaded
           /\ app' = IF loaded = Null THEN "crashed" ELSE "running"
    /\ UNCHANGED <<genVars, level, status, maze, playerPos, goalPos, timer, timerRef,
                   stored, intervals, winTimeouts, histVars>>

---------------------------------------------------------------------------
(* App: levels *)

Min(a, b) == IF a <= b THEN a ELSE b

LevelSize(lvl) == Min(INITIAL_SIZE + (lvl - 1) * 2, MAX_SIZE)

\* generateMaze(size, size) for the sizes of the levels, computed once
Mazes == [size \in {LevelSize(l) : l \in 1..MaxLevel} |-> generateMaze(size, size)]

\* setInterval returns an id no live or remembered timer has
NewIntervalId ==
    CHOOSE id \in 1..(Cardinality(intervals) + 2) :
        /\ id \notin intervals \cup {timerRef}
        /\ \A k \in 1..(id - 1) : k \in intervals \cup {timerRef}

\* faulty variant: the interval of the level left behind is not cleared
initLevel_noClear(lvl) ==
    LET size == LevelSize(lvl)
    IN  /\ \E newMaze \in Mazes[size] : maze' = newMaze
        /\ playerPos' = Pos(0, 0)
        /\ goalPos' = Pos(size - 1, size - 1)
        /\ status' = "PLAYING"
        /\ timer' = 0
        /\ timerRef' = NewIntervalId
        /\ intervals' = intervals \cup {NewIntervalId}

\* faulty variant: the goal is placed at (size, size)
initLevel_goalOff(lvl) ==
    LET size == LevelSize(lvl)
    IN  /\ \E newMaze \in Mazes[size] : maze' = newMaze
        /\ playerPos' = Pos(0, 0)
        /\ goalPos' = Pos(size, size)
        /\ status' = "PLAYING"
        /\ timer' = 0
        /\ timerRef' = NewIntervalId
        /\ intervals' = (IF timerRef # 0 THEN intervals \ {timerRef} ELSE intervals)
                            \cup {NewIntervalId}

initLevel(lvl) ==
    LET size == LevelSize(lvl)
    IN  /\ \E newMaze \in Mazes[size] : maze' = newMaze
        /\ playerPos' = Pos(0, 0)
        /\ goalPos' = Pos(size - 1, size - 1)
        /\ status' = "PLAYING"
        /\ timer' = 0
        /\ timerRef' = NewIntervalId
        /\ intervals' = (IF timerRef # 0 THEN intervals \ {timerRef} ELSE intervals)
                            \cup {NewIntervalId}

\* the "Begin Sequence" button of the START overlay
BeginSequence ==
    /\ app = "running"
    /\ status = "START"
    /\ initLevel(1)
    /\ wonLevel' = 0
    /\ UNCHANGED <<genVars, level, bestTimes, app, stored, winTimeouts, completions>>

\* the "Next Stage" button of the WON overlay
nextLevel ==
    /\ app = "running"
    /\ status = "WON"
    /\ level < MaxLevel
    /\ LET nextLvl == level + 1
       IN  /\ level' = nextLvl
           /\ initLevel(nextLvl)
    /\ wonLevel' = 0
    /\ UNCHANGED <<genVars, bestTimes, app, stored, winTimeouts, completions>>

\* "Reset Progress" of the WON overlay and the always present reset button
restartGame ==
    /\ app = "running"
    /\ level' = 1
    /\ initLevel(1)
    /\ wonLevel' = 0
    /\ UNCHANGED <<genVars, bestTimes, app, stored, winTimeouts, completions>>

\* the interval callback: setTimer(prev => prev + 1)
TimerTick ==
    /\ app = "running"
    /\ intervals # {}
    /\ timer < MaxTimer
    /\ timer' = timer + 1
    /\ UNCHANGED <<genVars, level, status, maze, playerPos, goalPos, bestTimes, timerRef,
                   envVars, histVars>>

---------------------------------------------------------------------------
(* App: movement and winning *)

\* faulty variant: the wall flags are not consulted
NextPos_noWalls(mz, current, dir) ==
    IF dir = "UP" THEN Pos(current.r - 1, current.c)
    ELSE IF dir = "DOWN" THEN Pos(current.r + 1, current.c)
    ELSE IF dir = "LEFT" THEN Pos(current.r, current.c - 1)
    ELSE Pos(current.r, current.c + 1)

\* faulty variant: UP and DOWN step the wrong way
NextPos_upDown(mz, current, dir) ==
    LET cell == mz[current.r][current.c]
    IN  IF dir = "UP" /\ ~cell.walls.top THEN Pos(current.r + 1, current.c)
        ELSE IF dir = "DOWN" /\ ~cell.walls.bottom THEN Pos(current.r - 1, current.c)
        ELSE IF dir = "LEFT" /\ ~cell.walls.left THEN Pos(current.r, current.c - 1)
        ELSE IF dir = "RIGHT" /\ ~cell.walls.right THEN Pos(current.r, current.c + 1)
        ELSE current

\* the updater passed to setPlayerPos
NextPos(mz, current, dir) ==
    LET cell == mz[current.r][current.c]
    IN  IF dir = "UP" /\ ~cell.walls.top THEN Pos(current.r - 1, current.c)
        ELSE IF dir = "DOWN" /\ ~cell.walls.bottom THEN Pos(current.r + 1, current.c)
        ELSE IF dir = "LEFT" /\ ~cell.walls.left THEN Pos(current.r, current.c - 1)
        ELSE IF dir = "RIGHT" /\ ~cell.walls.right THEN Pos(current.r, current.c + 1)
        ELSE current

\* maze[current.r][current.c] is a cell
HasCell(mz, p) == p.r \in DOMAIN mz /\ p.c \in DOMAIN mz[p.r]

\* faulty variant: a move against a wall removes the wall flag (an
\* assignment where the test was meant) and goes through
movePlayer_assigns(dir) ==
    /\ app = "running"
    /\ status = "PLAYING"
    /\ HasCell(maze, playerPos)
    /\ LET side == CASE dir = "UP" -> "top" [] dir = "DOWN" -> "bottom"
                     [] dir = "LEFT" -> "left" [] dir = "RIGHT" -> "right"
           opened == ClearWall(maze, playerPos, side)
           nextPos == NextPos(opened, playerPos, dir)
       IN  /\ maze' = opened
           /\ playerPos' = nextPos
           /\ IF nextPos.r = goalPos.r /\ nextPos.c = goalPos.c
              THEN /\ Len(winTimeouts) < MaxPending
                   /\ winTimeouts' = Append(winTimeouts, level)
              ELSE winTimeouts' = winTimeouts
    /\ UNCHANGED <<genVars, level, status, goalPos, timer, bestTimes, timerRef,
                   app, stored, intervals, histVars>>

movePlayer(dir) ==
    /\ app = "running"
    /\ status = "PLAYING"
    /\ IF HasCell(maze, playerPos)
       THEN LET nextPos == NextPos(maze, playerPos, dir)
            IN  /\ playerPos' = nextPos
                /\ IF nextPos.r = goalPos.r /\ nextPos.c = goalPos.c
                   THEN /\ Len(winTimeouts) < MaxPending
                        /\ winTimeouts' = Append(winTimeouts, level)
                   ELSE winTimeouts' = winTimeouts
                /\ app' = app
       ELSE \* reading .walls of undefined throws inside the updater
            /\ app' = "crashed"
            /\ UNCHANGED <<playerPos, winTimeouts>>
    /\ UNCHANGED <<genVars, level, status, maze, goalPos, timer, bestTimes, timerRef,
                   stored, intervals, histVars>>

\* the 50 ms timeout set by movePlayer fires; lvl is the `level` of the
\* render whose handleWin the timeout holds
handleWin(lvl) ==
    /\ intervals' = (IF timerRef # 0 THEN intervals \ {timerRef} ELSE intervals)
    /\ status' = "WON"
    /\ LET currentTimer == timer
           prev == bestTimes.rec
           newBests == [l \in DOMAIN prev \cup {lvl} |->
                            IF l = lvl THEN currentTimer ELSE prev[l]]
       IN  IF Falsy(prev, lvl) \/ currentTimer < prev[lvl]
           THEN /\ bestTimes' = Obj(newBests)
                /\ stored' = JSONstringify(newBests)
           ELSE UNCHANGED <<bestTimes, stored>>
    /\ completions' = [completions EXCEPT ![lvl] = @ \cup {timer}]
    /\ wonLevel' = lvl

WinTimeout ==
    /\ app = "running"
    /\ Len(winTimeouts) > 0
    /\ handleWin(Head(winTimeouts))
    /\ winTimeouts' = Tail(winTimeouts)
    /\ UNCHANGED <<genVars, level, maze, playerPos, goalPos, timer, timerRef, app>>

---------------------------------------------------------------------------
(* The App from its first render *)

\* what localStorage may hold when the session starts
StoredAtStart ==
    {NoItem,
     [kind |-> "garbage"],
     [kind |-> "null"],
     JSONstringify((1 :> 1))}

\* the completions an item left by earlier sessions stands for
Earlier(item) ==
    LET rec == IF item.kind = "object" THEN JSONparse(item).rec ELSE << >>
    IN  [l \in 1..MaxLevel |-> IF l \in DOMAIN rec THEN {rec[l]} ELSE {}]

Init ==
    /\ rows = 0
    /\ cols = 0
    /\ grid = NoMaze
    /\ stack = <<>>
    /\ gpc = "idle"
    /\ pushes = << >>
    /\ pops = << >>
    /\ level = 1
    /\ status = "START"
    /\ maze = NoMaze
    /\ playerPos = Pos(0, 0)
    /\ goalPos = Pos(0, 0)
    /\ timer = 0
    /\ bestTimes = Obj(<< >>)
    /\ timerRef = 0
    /\ app = "mounting"
    /\ stored \in StoredAtStart
    /\ intervals = {}
    /\ winTimeouts = <<>>
    /\ completions = Earlier(stored)
    /\ wonLevel = 0

Move == \E dir \in Direction : movePlayer(dir)

Next ==
    \/ LoadBestTimes
    \/ BeginSequence
    \/ nextLevel
    \/ restartGame
    \/ TimerTick
    \/ Move
    \/ WinTimeout

Spec == Init /\ [][Next]_vars

---------------------------------------------------------------------------
(* The cleared-wall graph of a grid *)

Cells(g) == {Pos(r, c) : r \in DOMAIN g, c \in DOMAIN g[0]}

\* the cell one step from p on the given side (possibly outside the grid)
Beyond(p, side) ==
    CASE side = "top"    -> Pos(p.r - 1, p.c)
      [] side = "bottom" -> Pos(p.r + 1, p.c)
      [] side = "left"   -> Pos(p.r, p.c - 1)
      [] side = "right"  -> Pos(p.r, p.c + 1)

Opposite(side) ==
    CASE side = "top"    -> "bottom"
      [] side = "bottom" -> "top"
      [] side = "left"   -> "right"
      [] side = "right"  -> "left"

Wall(g, p, side) == g[p.r][p.c].walls[side]

\* a and b are grid-adjacent and the wall between them is cleared on both sides
InGrid(g, p) == p.r \in DOMAIN g /\ p.c \in DOMAIN g[0]

Edge(g, a, b) ==
    \E side \in Sides :
        /\ b = Beyond(a, side)
        /\ InGrid(g, b)
        /\ ~Wall(g, a, side)
        /\ ~Wall(g, b, Opposite(side))

Nbrs(g, a) ==
    {Beyond(a, side) : side \in {sd \in Sides : Edge(g, a, Beyond(a, sd))}}

RECURSIVE ReachFrom(_, _)
ReachFrom(g, S) ==
    LET T == S \cup UNION {Nbrs(g, a) : a \in S}
    IN  IF T = S THEN S ELSE ReachFrom(g, T)

\* the end cells of all simple paths that start with a given path through
\* the cells of seen and currently end in a, one entry per path
RECURSIVE PathEnds(_, _, _), PathEndsVia(_, _, _)
PathEnds(g, a, seen) == <<a>> \o PathEndsVia(g, Nbrs(g, a) \ seen, seen)
PathEndsVia(g, S, seen) ==
    IF S = {} THEN <<>>
    ELSE LET n == CHOOSE x \in S : TRUE
         IN  PathEnds(g, n, seen \cup {n}) \o PathEndsVia(g, S \ {n}, seen)

\* from a there is exactly one simple path to every cell: every cell ends
\* some path, and there are as many paths as cells
OnePathToEach(g, a) ==
    LET ends == PathEnds(g, a, {a})
    IN  /\ {ends[i] : i \in 1..Len(ends)} = Cells(g)
        /\ Len(ends) = Cardinality(Cells(g))

\* the cleared wall pairs, each adjacent cell pair counted once
ClearedPairs(g) ==
    {p \in Cells(g) \X {"right", "bottom"} : Edge(g, p[1], Beyond(p[1], p[2]))}

---------------------------------------------------------------------------
(* Claims about generateMaze *)

\* C1: the grid returned by generateMaze is a perfect maze: between any two
\* cells there is exactly one simple path over cleared wall pairs.
C1_PerfectMaze ==
    gpc = "returned" =>
        \A a \in Cells(grid) : OnePathToEach(grid, a)

C1_Witness == gpc = "returned" /\ rows >= 3 /\ cols >= 3

\* C2: when generateMaze returns, every cell is visited and reachable from
\* (0,0) by moves that cross a cleared wall pair.
C2_FullCoverage ==
    gpc = "returned" =>
        /\ \A r \in 0..(rows - 1), c \in 0..(cols - 1) : grid[r][c].visited
        /\ ReachFrom(grid, {start}) = {Pos(r, c) : r \in 0..(rows - 1), c \in 0..(cols - 1)}

C2_Witness == gpc = "returned" /\ rows >= 2 /\ cols >= 3

\* C3: the returned grid has exactly rows*cols - 1 cleared wall pairs.
C3_EdgeCount ==
    gpc = "returned" => Cardinality(ClearedPairs(grid)) = rows * cols - 1

C3_Witness == gpc = "returned" /\ rows = 2 /\ cols = 2 /\ Cardinality(ClearedPairs(grid)) = 3

\* C4: after every step of generation and in the returned grid, for every
\* pair of grid-adjacent cells, A's wall facing B is cleared iff B's wall
\* facing A is cleared.
C4_Symmetry ==
    \A a \in Cells(grid) : \A side \in Sides :
        InGrid(grid, Beyond(a, side)) =>
            (Wall(grid, a, side) <=> Wall(grid, Beyond(a, side), Opposite(side)))

C4_Witness ==
    /\ gpc = "loop"
    /\ Len(stack) >= 3
    /\ \E a \in Cells(grid) : ~Wall(grid, a, "left") /\ ~Wall(grid, a, "bottom")

\* C5: outer boundary walls are never cleared, at every step of generation
\* and in the returned grid.
C5_Boundary ==
    /\ \A c \in 0..(cols - 1) : grid[0][c].walls.top /\ grid[rows - 1][c].walls.bottom
    /\ \A r \in 0..(rows - 1) : grid[r][0].walls.left /\ grid[r][cols - 1].walls.right

C5_Witness ==
    /\ gpc = "returned"
    /\ rows >= 2 /\ cols >= 2
    /\ ~grid[rows - 1][cols - 1].walls.top
    /\ ~grid[0][0].walls.right

\* C6: for every rows, cols >= 1 and every sequence of random choices the
\* loop terminates: the stack becomes empty and generateMaze returns.
C6_Terminates == <>(gpc = "returned" /\ stack = <<>>)

C6_Witness == gpc = "returned" /\ stack = <<>> /\ rows >= 2 /\ cols >= 2

---------------------------------------------------------------------------
(* Claims about the App *)

\* the wall a move in direction dir has to cross
SideOf(dir) ==
    CASE dir = "UP"    -> "top"
      [] dir = "DOWN"  -> "bottom"
      [] dir = "LEFT"  -> "left"
      [] dir = "RIGHT" -> "right"

\* C7: while a level is being played, a move request changes the player
\* position iff the wall flag of the current cell on that side is false;
\* then the position changes by exactly one cell in that direction and the
\* destination's reciprocal wall is clear too; otherwise it is unchanged.
C7_MoveLegality ==
    [][\A dir \in Direction :
          movePlayer(dir) =>
              IF Wall(maze, playerPos, SideOf(dir))
              THEN playerPos' = playerPos
              ELSE /\ playerPos' = Beyond(playerPos, SideOf(dir))
                   /\ InGrid(maze, playerPos')
                   /\ ~Wall(maze, playerPos', Opposite(SideOf(dir)))]_vars

C7_Witness ==
    /\ status = "PLAYING"
    /\ playerPos.r >= 1 /\ playerPos.c >= 1
    /\ \E side \in Sides : Wall(maze, playerPos, side) /\ InGrid(maze, Beyond(playerPos, side))

\* C8: once generated, the maze is changed by no move, timer tick or win:
\* it stays as it is until an initLevel replaces it with a new one.
C8_MazeFrame ==
    [][maze' # maze => (BeginSequence \/ nextLevel \/ restartGame)]_vars

C8_Witness ==
    /\ status = "WON"
    /\ timer >= 1
    /\ playerPos # Pos(0, 0)
    /\ maze \in Mazes[LevelSize(level)]

\* the cells a player at some cell of S can get to by legal moves
RECURSIVE LegalReach(_, _)
LegalReach(mz, S) ==
    LET T == S \cup {NextPos(mz, p, dir) : p \in {q \in S : HasCell(mz, q)}, dir \in Direction}
    IN  IF T = S THEN S ELSE LegalReach(mz, T)

\* C9: every level is winnable at all times: while a level is played, on
\* the square grid of the level's side and with the goal in its last cell,
\* some sequence of legal moves leads from the player's cell to the goal.
C9_Winnable ==
    (app = "running" /\ status = "PLAYING") =>
        /\ DOMAIN maze = 0..(LevelSize(level) - 1)
        /\ goalPos = Pos(LevelSize(level) - 1, LevelSize(level) - 1)
        /\ goalPos \in LegalReach(maze, {playerPos})

C9_Witness ==
    /\ status = "PLAYING"
    /\ level = 2
    /\ playerPos \notin {Pos(0, 0), goalPos}
    /\ Cardinality({side \in Sides : ~Wall(maze, playerPos, side)}) = 1

\* the record the persisted item spells, empty when there is none or it is unreadable
StoredRecord ==
    IF stored.kind = "object" THEN JSONparse(stored).rec ELSE << >>

SetMin(S) == CHOOSE x \in S : \A y \in S : x <= y

\* C10: the recorded best time of each level, in memory and persisted, is
\* the smallest completion time of that level so far, and a level never
\* completed has no record.
C10_BestIsMin ==
    app = "running" =>
        \A l \in 1..MaxLevel :
            IF completions[l] = {}
            THEN l \notin DOMAIN bestTimes.rec /\ l \notin DOMAIN StoredRecord
            ELSE /\ l \in DOMAIN bestTimes.rec
                 /\ bestTimes.rec[l] = SetMin(completions[l])
                 /\ l \in DOMAIN StoredRecord
                 /\ StoredRecord[l] = SetMin(completions[l])

\* C11: restoring the best times never fails fatally and always leaves a
\* mapping from level numbers to non-negative whole seconds in memory: the
\* App never crashes, and a session that found no item or an unparseable
\* one has the empty mapping once the load effect has run.
C11_LoadNeverFatal ==
    /\ app # "crashed"
    /\ bestTimes.kind = "object"
    /\ \A l \in DOMAIN bestTimes.rec : l \in Nat \ {0} /\ bestTimes.rec[l] \in Nat
    /\ (app = "running" /\ status = "START" /\ stored.kind \in {"absent", "garbage"})
           => bestTimes = Obj(<< >>)

\* C12: generateMaze(1, 1) is the degenerate case: the grid is the single
\* cell (0,0) with all four wall flags true and no cleared pair at every
\* point of the call; nothing is pushed after the initial push of (0,0),
\* and the call returns after the one pop of (0,0).
C12_SingleCell ==
    (gpc # "idle" /\ rows = 1 /\ cols = 1) =>
        /\ Cells(grid) = {Pos(0, 0)}
        /\ \A side \in Sides : grid[0][0].walls[side]
        /\ ClearedPairs(grid) = {}
        /\ pushes[start] = 1
        /\ stack \in {<<start>>, <<>>}
        /\ pops[start] = (IF stack = <<>> THEN 1 ELSE 0)
        /\ gpc = "returned" => stack = <<>>

C12_Witness ==
    /\ rows = 1 /\ cols = 1
    /\ gpc = "returned"
    /\ pops[start] = 1
    /\ \A side \in Sides : grid[0][0].walls[side]

Visited(g) == {p \in Cells(g) : g[p.r][p.c].visited}

Adjacent(a, b) ==
    \/ a.c = b.c /\ (a.r - b.r = 1 \/ b.r - a.r = 1)
    \/ a.r = b.r /\ (a.c - b.c = 1 \/ b.c - a.c = 1)

\* C13: every step that changes the grid clears exactly one wall pair: the
\* pair between the cell on top of the stack, already visited, and an
\* adjacent cell of the grid that was unvisited until this step and is the
\* new top of the stack. No pair is cleared between two cells that were both
\* visited, and after every step the number of cleared pairs is the number
\* of visited cells minus one.
C13_TreeGrowth ==
    [][LET new == ClearedPairs(grid') \ ClearedPairs(grid)
       IN  /\ grid' # grid =>
                 /\ Len(stack) > 0
                 /\ Len(stack') = Len(stack) + 1
                 /\ LET a == stack[Len(stack)]
                        b == stack'[Len(stack')]
                    IN  /\ InGrid(grid, a) /\ InGrid(grid, b)
                        /\ Adjacent(a, b)
                        /\ a \in Visited(grid)
                        /\ b \notin Visited(grid)
                        /\ Visited(grid') = Visited(grid) \cup {b}
                        /\ Cardinality(new) = 1
                        /\ Edge(grid', a, b)
           /\ grid' = grid => new = {}
           /\ ClearedPairs(grid) \subseteq ClearedPairs(grid')
           /\ \A q \in new : ~({q[1], Beyond(q[1], q[2])} \subseteq Visited(grid))
           /\ Cardinality(ClearedPairs(grid')) = Cardinality(Visited(grid')) - 1
      ]_vars

C13_Witness ==
    /\ gpc = "loop"
    /\ Len(stack) >= 2
    /\ Cardinality(Visited(grid)) > Len(stack) + 1
    /\ Edge(grid, stack[Len(stack) - 1], stack[Len(stack)])
    /\ Cardinality(ClearedPairs(grid)) = Cardinality(Visited(grid)) - 1

\* C14: over a call of generateMaze every cell is pushed exactly once and
\* popped exactly once: no cell is ever pushed twice or popped more often
\* than pushed, a cell is pushed only in the step that first marks it
\* visited, a cell that was popped is never pushed again, and when the call
\* returns every cell of the grid has been pushed once and popped once.
C14_PushPopOnce ==
    [][/\ \A p \in DOMAIN pushes' :
            /\ pushes'[p] <= 1
            /\ pops'[p] <= pushes'[p]
            /\ Count(stack', p) = pushes'[p] - pops'[p]
            /\ pushes'[p] > pushes[p] => p \notin Visited(grid) /\ p \in Visited(grid')
            /\ pops[p] >= 1 => pushes'[p] = pushes[p]
       /\ gpc' = "returned" =>
            /\ DOMAIN pushes' = Cells(grid')
            /\ \A p \in Cells(grid') : pushes'[p] = 1 /\ pops'[p] = 1
      ]_vars

C14_Witness ==
    /\ gpc = "returned"
    /\ rows >= 2 /\ cols >= 2
    /\ \A p \in Cells(grid) : pushes[p] = 1 /\ pops[p] = 1

\* C15: the flags are monotone over a call of generateMaze: when the loop
\* is entered (the first state) every wall flag is true and every visited flag is false except
\* that of (0,0); from then on no step turns a false wall flag true or a
\* true visited flag false.
C15_Monotone ==
    /\ \A p \in Cells(grid) : \A side \in Sides : Wall(grid, p, side)
    /\ Visited(grid) = {Pos(0, 0)}
    /\ [][\A p \in Cells(grid) :
              /\ InGrid(grid', p)
              /\ \A side \in Sides : ~Wall(grid, p, side) => ~Wall(grid', p, side)
              /\ grid[p.r][p.c].visited => grid'[p.r][p.c].visited
         ]_vars

C15_Witness ==
    /\ gpc = "returned"
    /\ \E p \in Cells(grid) : Cardinality({side \in Sides : ~Wall(grid, p, side)}) >= 3
    /\ Visited(grid) = Cells(grid)

\* the flags the four cases of the claim name for first cell a and second cell b
FacingFlags(a, b) ==
    IF a.r - b.r = 1 THEN [first |-> "top", second |-> "bottom"]
    ELSE IF b.r - a.r = 1 THEN [first |-> "bottom", second |-> "top"]
    ELSE IF a.c - b.c = 1 THEN [first |-> "left", second |-> "right"]
    ELSE [first |-> "right", second |-> "left"]

\* grid h is grid g with the two facing flags of a and b false and nothing
\* else changed: putting g's values of the two flags back into h gives g
OnlyFacingCleared(g, h, a, b) ==
    LET f == FacingFlags(a, b)
    IN  /\ ~h[a.r][a.c].walls[f.first]
        /\ ~h[b.r][b.c].walls[f.second]
        /\ [h EXCEPT ![a.r][a.c].walls[f.first] = g[a.r][a.c].walls[f.first],
                     ![b.r][b.c].walls[f.second] = g[b.r][b.c].walls[f.second]] = g

\* C16: applied to any two adjacent cells A, B of the grid, removeWalls
\* clears exactly the two facing flags (B above A: A.top and B.bottom; B
\* below: A.bottom and B.top; B left: A.left and B.right; B right: A.right
\* and B.left) and changes nothing else; and every call the generator makes
\* has two adjacent cells of the grid as arguments, so each step that
\* changes wall flags changes exactly the two facing flags of the old and
\* the new top of the stack.
C16_FacingFlags ==
    [][/\ \A a \in Cells(grid) :
             \A b \in {Beyond(a, side) : side \in Sides} :
                 (InGrid(grid, b) /\ Adjacent(a, b)) =>
                     OnlyFacingCleared(grid, removeWalls(a, b, grid), a, b)
       /\ grid' # grid =>
             LET a == stack[Len(stack)]
                 b == stack'[Len(stack')]
             IN  /\ Len(stack) > 0 /\ Len(stack') = Len(stack) + 1
                 /\ InGrid(grid, a) /\ InGrid(grid, b)
                 /\ Adjacent(a, b)
                 /\ OnlyFacingCleared(grid,
                                      [grid' EXCEPT ![b.r][b.c].visited = FALSE], a, b)
      ]_vars

C16_Witness ==
    /\ gpc = "loop"
    /\ \E i, j, k, l \in 1..(Len(stack) - 1) :
          /\ stack[i + 1].r = stack[i].r - 1 /\ ~Wall(grid, stack[i], "top")
          /\ stack[j + 1].r = stack[j].r + 1 /\ ~Wall(grid, stack[j], "bottom")
          /\ stack[k + 1].c = stack[k].c - 1 /\ ~Wall(grid, stack[k], "left")
          /\ stack[l + 1].c = stack[l].c + 1 /\ ~Wall(grid, stack[l], "right")

\* C17: the stack is at all times a simple path of the cleared-wall graph
\* that starts at (0,0): while it is non-empty its bottom entry is (0,0),
\* every entry is a visited cell of the grid, no cell occurs twice, and any
\* two consecutive entries are adjacent with the wall pair between them
\* cleared; its depth never exceeds rows * cols.
C17_StackIsPath ==
    gpc # "idle" =>
        /\ Len(stack) <= rows * cols
        /\ stack # <<>> =>
              /\ stack[1] = Pos(0, 0)
              /\ \A k \in 1..Len(stack) : stack[k] \in Visited(grid)
              /\ \A i, j \in 1..Len(stack) : stack[i] = stack[j] => i = j
              /\ \A k \in 1..(Len(stack) - 1) :
                    /\ Adjacent(stack[k], stack[k + 1])
                    /\ Edge(grid, stack[k], stack[k + 1])

C17_Witness ==
    /\ gpc = "loop"
    /\ rows >= 2 /\ cols >= 3
    /\ Len(stack) = rows * cols
    /\ stack[1] = Pos(0, 0)
    /\ \A k \in 1..(Len(stack) - 1) : Edge(grid, stack[k], stack[k + 1])

---------------------------------------------------------------------------
(* Claims about the App under interleavings *)

\* C18: whenever the status is WON, the player stands on the goal cell of
\* the current level's maze, and the current level is the level whose goal
\* was reached by the move that led to this WON status.
C18_WonAtGoal ==
    (app = "running" /\ status = "WON") =>
        /\ goalPos = Pos(LevelSize(level) - 1, LevelSize(level) - 1)
        /\ playerPos = goalPos
        /\ wonLevel = level

\* C19: once a level has been started, the maze is the square grid of the
\* level's side and the player position is a valid index of it
\* (0 <= r < side and 0 <= c < side), whatever sequence of level starts,
\* restarts, level advances and moves led here; so the lookup of the
\* player's cell in movePlayer finds a cell and the App has not failed on it.
C19_PlayerInGrid ==
    status # "START" =>
        LET side == LevelSize(level)
        IN  /\ app = "running"
            /\ DOMAIN maze = 0..(side - 1)
            /\ \A r \in DOMAIN maze : DOMAIN maze[r] = 0..(side - 1)
            /\ playerPos.r \in 0..(side - 1)
            /\ playerPos.c \in 0..(side - 1)
            /\ HasCell(maze, playerPos)

C19_Witness ==
    /\ status = "PLAYING"
    /\ level = 2
    /\ playerPos.r = LevelSize(level) - 1
    /\ playerPos.c = 0
    /\ wonLevel = 0
    /\ completions[1] # {}

\* C20: no interval is live before the first level start, and after every
\* step at most one timer interval is live: exactly one, the one held by
\* timerRef, when the status is PLAYING, and none when the status is START
\* or WON. Hence the timer does not change between two WON states, and
\* every level start leaves the timer at 0.
C20_OneInterval ==
    /\ intervals = {}
    /\ [][/\ Cardinality(intervals') <= 1
          /\ status' = "PLAYING" => intervals' = {timerRef'} /\ timerRef' # 0
          /\ status' \in {"START", "WON"} => intervals' = {}
          /\ (status = "WON" /\ status' = "WON") => timer' = timer
          /\ (BeginSequence \/ nextLevel \/ restartGame) => timer' = 0
         ]_vars

C20_Witness ==
    /\ status = "WON"
    /\ intervals = {}
    /\ timerRef = 2
    /\ timer >= 1
    /\ level = 1
    /\ wonLevel = 1

=============================================================================
